---- MODULE Spec2Model ----
(***************************************************************************)
(* The subscription service of watchlist-kata/subscription: the gRPC       *)
(* handlers (GrpcSubscriptionServer), the service layer                     *)
(* (subscriptionService) and the repository                                 *)
(* (PostgresSubscriptionRepository) over the table "subscription" and the   *)
(* four downstream gRPC clients.                                            *)
(*                                                                         *)
(* Every request is served by its own goroutine; the requests share only    *)
(* the table.  A request is split at its blocking calls: one step per       *)
(* storage query and per gateway call.  The select on ctx.Done() that       *)
(* precedes a storage query is taken together with the query: gorm is       *)
(* called without the context, so a cancellation that arrives after the     *)
(* select has the effect of one that arrives after the query.               *)
(***************************************************************************)
EXTENDS Integers, Sequences, FiniteSets, TLC

\* ------------------------------------------------------------------ bounds

\* requests accepted in one behaviour of Spec (all operations)
MaxRequests == 2
\* requests accepted in one behaviour of SpecEdges (the operations on edges)
MaxEdgeRequests == 3
\* requests accepted in one behaviour of SpecAggregates
MaxAggregateRequests == 2

\* requests accepted in one behaviour of SpecReviews
MaxReviewRequests == 3

\* Requests served one after the other in the sequential runs.
MaxSequentialRequests == 3

\* Aggregate requests in the runs that are checked for termination.
MaxLiveRequests == 2

\* user ids
Users == {1, 2, 3}
\* goroutines serving requests at the same time
Workers == {1, 2}
Pairs == Users \X Users

\* ------------------------------------------------------------- vocabulary

PairOps == {"Subscribe", "Unsubscribe", "IsSubscribed"}
ListOps == {"GetSubscriptions", "GetSubscribers"}
AggregateOps == {"GetWatchlistsBySubscription", "GetReviewsBySubscription"}
Ops == PairOps \cup ListOps \cup AggregateOps

\* codes.* of google.golang.org/grpc/codes used by the service and the server
Codes == {"OK", "Canceled", "InvalidArgument", "AlreadyExists", "NotFound", "Internal"}

\* An error text is modelled by the phrase the server's strings.Contains looks
\* for that it holds: "already exists", "does not exist", or neither ("plain").
ErrTexts == {"plain", "already exists", "does not exist"}

Contains(text, phrase) == text = phrase

\* ------------------------------------------------------- downstream data

\* watchlist service: GetWatchlist(UserId) -> Watchlists, each {MediaId, UserId}.
\* The record's UserId is the downstream's own field; the third user's second
\* record carries another user's id.
Watchlists(u) ==
    CASE u = 2 -> << [MediaId |-> 42, UserId |-> 2] >>
      [] u = 3 -> << [MediaId |-> 41, UserId |-> 3], [MediaId |-> 42, UserId |-> 2] >>
      [] OTHER -> << >>

\* review service: GetByUser(UserId) -> Reviews
Reviews(u) ==
    CASE u = 2 -> << [Id |-> 7, UserId |-> 2, Content |-> "ok", Rating |-> 4, MediaId |-> 42] >>
      [] u = 3 -> << [Id |-> 8, UserId |-> 3, Content |-> "bad", Rating |-> 1, MediaId |-> 41],
                     [Id |-> 9, UserId |-> 2, Content |-> "fine", Rating |-> 3, MediaId |-> 42] >>
      [] OTHER -> << >>

\* media service: GetMediaByID(Id)
MediaByID(m) ==
    IF m = 42 THEN [NameEn |-> "Film", Description |-> "d", Year |-> 1999]
              ELSE [NameEn |-> "Alpha", Description |-> "dA", Year |-> 2001]

\* user service: GetByID(Id) -> User.Username
Username(u) ==
    CASE u = 1 -> "alice"
      [] u = 2 -> "bob"
      [] OTHER -> "carol"

NoMedia == [NameEn |-> "", Description |-> "", Year |-> 0]

\* ------------------------------------------------------------------ state

VARIABLES
    subscription,   \* the table: number of rows per (subscriber_id, user_id)
    req,            \* per worker: the request it serves
    started,        \* requests accepted so far
    subscribedOk    \* history: a Subscribe of the pair succeeded and no
                    \* Unsubscribe of the pair was called since

vars == << subscription, req, started, subscribedOk >>

Idle ==
    [ op |-> "none", a |-> 0, b |-> 0, ctx |-> "live", pc |-> "idle",
      found |-> FALSE, ids |-> << >>, i |-> 0, entries |-> << >>, j |-> 0,
      media |-> NoMedia, items |-> << >>,
      svc |-> "none", text |-> "plain", result |-> "none",
      ncalls |-> 0, entryCtx |-> "live", midCancel |-> FALSE, cancelAt |-> "none",
      callsAtCancel |-> 0,
      failedAt |-> "none", joined |-> 0, rows |-> 0, queried |-> FALSE,
      again |-> FALSE, calls |-> << >> ]

InFlight(r) == r.pc \notin {"idle", "done"}

\* ------------------------------------------------------------- repository

RECURSIVE Sum(_, _)
Sum(c, S) ==
    IF S = {} THEN 0
    ELSE LET k == CHOOSE x \in S : TRUE IN c[k] + Sum(c, S \ {k})

\* The orders in which a query without ORDER BY may return its rows: every
\* sequence that holds user v exactly c[v] times.
Orders(c) ==
    LET n == Sum(c, Users)
    IN { s \in [1..n -> Users] :
           \A v \in Users : Cardinality({ k \in 1..n : s[k] = v }) = c[v] }

\* the repository's select { case <-ctx.Done(): return ctx.Err(); default: },
\* and a gRPC client call made with ctx
CtxDone(ctx) == ctx = "cancelled"

\* db.Where("subscriber_id = ? AND user_id = ?").First(&subscription)
RepoIsSubscribed(tbl, a, b) == tbl[<< a, b >>] > 0

\* a lookup that inserts the row it does not find
RepoFirstOrCreate(tbl, a, b) == [tbl EXCEPT ![<< a, b >>] = IF @ = 0 THEN 1 ELSE @]

\* the table after db.Where(...).First(&subscription): a lookup writes nothing
RepoFirst(tbl, a, b) == tbl

\* an insert that also writes the reverse row
RepoSubscribeMutual(tbl, a, b) ==
    [tbl EXCEPT ![<< a, b >>] = @ + 1, ![<< b, a >>] = @ + 1]

\* db.Create(&GormSubscription{SubscriberID, UserID, CreatedAt})
RepoSubscribe(tbl, a, b) == [tbl EXCEPT ![<< a, b >>] = @ + 1]

\* a Delete that stops at the first matching row
RepoUnsubscribeFirstRow(tbl, a, b) ==
    [tbl EXCEPT ![<< a, b >>] = IF @ > 0 THEN @ - 1 ELSE 0]

\* a delete that leaves the rows in the table
RepoUnsubscribeKeepsRows(tbl, a, b) == tbl

\* db.Where("subscriber_id = ? AND user_id = ?").Delete(&GormSubscription{})
RepoUnsubscribe(tbl, a, b) == [tbl EXCEPT ![<< a, b >>] = 0]

\* db.Where("subscriber_id = ?").Find(&subscriptions), then the UserID column
RepoGetSubscriptions(tbl, u) == Orders([v \in Users |-> tbl[<< u, v >>]])

\* db.Where("user_id = ?").Find(&subscriptions), then the SubscriberID column
RepoGetSubscribers(tbl, u) == Orders([v \in Users |-> tbl[<< v, u >>]])

\* the items the repository builds from a record, the media and the user
WatchlistItem(entry, media, name) ==
    [ MediaId |-> entry.MediaId, UserId |-> entry.UserId, UserName |-> name,
      Title |-> media.NameEn, Description |-> media.Description ]

ReviewItem(review, media, name) ==
    [ ReviewId |-> review.Id, UserId |-> review.UserId, UserName |-> name,
      Content |-> review.Content, Rating |-> review.Rating,
      MediaName |-> media.NameEn, MediaYear |-> media.Year ]

\* watchlistClient.GetWatchlist / reviewClient.GetByUser
SourceOf(op, u) ==
    IF op = "GetWatchlistsBySubscription" THEN Watchlists(u) ELSE Reviews(u)

ItemOf(op, entry, media, name) ==
    IF op = "GetWatchlistsBySubscription"
    THEN WatchlistItem(entry, media, name)
    ELSE ReviewItem(entry, media, name)

\* a join that puts the new item in front
JoinFront(items, item) == << item >> \o items

\* watchlists = append(watchlists, watchlistItemInfo) / reviews = append(reviews, reviewItem)
Join(items, item) == Append(items, item)

\* ---------------------------------------------------------------- service

\* an entry check that never sees the cancellation
checkContextCancelledNever(ctx) == FALSE

\* select { case <-ctx.Done(): return ctx.Err(); default: return nil }
checkContextCancelled(ctx) == ctx = "cancelled"

\* an IsSubscribed that takes "no row" for an error
IsSubscribedAbsentFails(isSubscribed) == IF isSubscribed THEN "OK" ELSE "NotFound"

\* IsSubscribed: gorm.ErrRecordNotFound is (false, nil), a row is (true, nil)
IsSubscribedCheck(isSubscribed) == "OK"

\* Subscribe, after IsSubscribed returned isSubscribed without an error
SubscribeCheck(isSubscribed) == IF isSubscribed THEN "AlreadyExists" ELSE "proceed"

\* an Unsubscribe that deletes without looking at isSubscribed
UnsubscribeCheckSkipped(isSubscribed) == "proceed"

\* Unsubscribe, after IsSubscribed returned isSubscribed without an error
UnsubscribeCheck(isSubscribed) == IF ~isSubscribed THEN "NotFound" ELSE "proceed"

\* the text of the status the service returns with a code; an Internal status
\* quotes the error it wraps
ServiceText(code, wrapped) ==
    CASE code = "AlreadyExists" -> "already exists"
      [] code = "NotFound" -> "does not exist"
      [] code = "Internal" -> wrapped
      [] OTHER -> "plain"

\* an aggregate that hands back the items joined so far beside the error
AggregateReturnPartial(failed, joined) ==
    [svc |-> IF failed THEN "Internal" ELSE "OK", items |-> joined]

\* GetWatchlistsBySubscription / GetReviewsBySubscription of the repository and
\* of the service: (nil, err) when a call failed, else the items joined
AggregateReturn(failed, joined) ==
    IF failed THEN [svc |-> "Internal", items |-> << >>]
              ELSE [svc |-> "OK", items |-> joined]

\* ----------------------------------------------------------------- server

\* a handler without its own check of the two ids
ServerPrecheckMissing(op, a, b) == FALSE

\* GrpcSubscriptionServer.Subscribe: req.SubscriberId == req.SubscribeToId
ServerPrecheck(op, a, b) == op = "Subscribe" /\ a = b

\* a handler that returns the service's error without a status of its own
GrpcCodeUntyped(op, svc, text) == IF svc = "OK" THEN "OK" ELSE "Unknown"

\* the code the handler of op returns for the service's error
GrpcCode(op, svc, text) ==
    IF svc = "OK" THEN "OK"
    ELSE IF op = "Subscribe" /\ Contains(text, "already exists") THEN "AlreadyExists"
    ELSE IF op = "Unsubscribe" /\ Contains(text, "does not exist") THEN "NotFound"
    ELSE "Internal"

\* a request that issues a call together with the one that follows it
IssueAhead(r, call) ==
    [r EXCEPT !.ncalls = @ + 2, !.calls = Append(Append(@, call), call)]

\* the request r issues one call of an aggregate and waits for its answer:
\* r.GetSubscriptions(ctx, userID), GetWatchlist / GetByUser, GetMediaByID, GetByID
Issue(r, call) == [r EXCEPT !.ncalls = @ + 1, !.calls = Append(@, call)]

\* the request r ended by the service with code svc; the handler's locals die
Finish(r, svc, wrapped) ==
    LET text == ServiceText(svc, wrapped)
    IN [r EXCEPT !.pc = "done", !.svc = svc, !.text = text,
                 !.result = GrpcCode(r.op, svc, text),
                 !.calls = IF svc = "OK" THEN @ ELSE << >>,
                 !.i = 0, !.j = 0, !.entries = << >>, !.media = NoMedia]

\* the request r ended with an error: (nil, err), (false, err)
FinishErr(r, svc, wrapped, at) ==
    Finish([r EXCEPT !.items = << >>, !.ids = << >>, !.failedAt = at], svc, wrapped)

\* an aggregate that issues a failed call once more before it gives up
FinishAggregateRetry(r, failed, at) ==
    IF failed /\ r.failedAt = "none" /\ ~CtxDone(r.ctx)
    THEN [r EXCEPT !.failedAt = at]
    ELSE LET out == AggregateReturn(failed, r.items)
         IN Finish([r EXCEPT !.items = out.items,
                             !.ids = IF failed THEN << >> ELSE @,
                             !.failedAt = at, !.joined = Len(r.items)],
                   out.svc, "plain")

\* an aggregate ended, after a failed call or at the end of its loop
FinishAggregate(r, failed, at) ==
    LET out == AggregateReturn(failed, r.items)
    IN Finish([r EXCEPT !.items = out.items,
                        !.ids = IF failed THEN << >> ELSE @,
                        !.failedAt = at, !.joined = Len(r.items)],
              out.svc, "plain")

FirstPc(op) == IF op \in PairOps THEN "exists" ELSE "list"

\* a failed call that takes the requests served beside it down with it
SetFatal(w, r) ==
    req' = [v \in Workers |->
              IF v = w THEN r
              ELSE IF req[w].pc # "done" /\ r.pc = "done" /\ r.failedAt # "none"
                      /\ InFlight(req[v])
              THEN Finish([req[v] EXCEPT !.items = << >>, !.ids = << >>],
                          "Internal", "plain")
              ELSE req[v]]

\* the goroutine of w moves on: only its own request changes
Set(w, r) == req' = [req EXCEPT ![w] = r]

\* ---------------------------------------------------------------- actions

Init ==
    /\ subscription = [p \in Pairs |-> 0]
    /\ req = [w \in Workers |-> Idle]
    /\ started = 0
    /\ subscribedOk = [p \in Pairs |-> FALSE]

\* A request for one of the operations ops arrives: the handler's own check,
\* then the service's entry check.
InvokeOf(w, ops, limit) ==
    /\ req[w].pc = "idle"
    /\ started < limit
    /\ \E op \in ops, a \in Users, c \in {"live", "cancelled"} :
         \E b \in (IF op \in PairOps THEN Users ELSE {a}) :
           LET r0 == [Idle EXCEPT !.op = op, !.a = a, !.b = b, !.ctx = c,
                                  !.entryCtx = c,
                                  !.again = (op = "Subscribe" /\ subscribedOk[<< a, b >>])]
               r1 == IF ServerPrecheck(op, a, b)
                     THEN [r0 EXCEPT !.pc = "done", !.result = "InvalidArgument"]
                     ELSE IF checkContextCancelled(c)
                     THEN FinishErr(r0, "Canceled", "plain", "none")
                     ELSE IF op = "Subscribe" /\ a = b
                     THEN FinishErr(r0, "InvalidArgument", "plain", "none")
                     ELSE [r0 EXCEPT !.pc = FirstPc(op)]
           IN /\ req' = [v \in Workers |->
                           IF v = w THEN r1
                           ELSE IF op = "Unsubscribe" /\ req[v].a = a /\ req[v].b = b
                           THEN [req[v] EXCEPT !.again = FALSE]
                           ELSE req[v]]
              /\ subscribedOk' = IF op = "Unsubscribe"
                                 THEN [subscribedOk EXCEPT ![<< a, b >>] = FALSE]
                                 ELSE subscribedOk
    /\ started' = started + 1
    /\ UNCHANGED subscription

\* The caller gives up, or the deadline passes, while the request is served.
Cancel(w) ==
    /\ InFlight(req[w])
    /\ req[w].ctx = "live"
    /\ Set(w, [req[w] EXCEPT !.ctx = "cancelled", !.midCancel = TRUE,
                             !.cancelAt = req[w].pc,
                             !.callsAtCancel = req[w].ncalls])
    /\ UNCHANGED << subscription, started, subscribedOk >>

\* service.IsSubscribed and repo.IsSubscribed, for IsSubscribed itself and as the
\* existence check of Subscribe and Unsubscribe.
IsSubscribed(w) ==
    LET r == req[w] IN
    /\ r.pc = "exists"
    /\ IF CtxDone(r.ctx)
       THEN Set(w, FinishErr(r, "Internal", "plain", "none"))
       ELSE LET q == [r EXCEPT !.ncalls = @ + 1, !.queried = TRUE] IN
            \/ \E t \in ErrTexts : Set(w, FinishErr(q, "Internal", t, "storage"))
            \/ LET isSubscribed == RepoIsSubscribed(subscription, r.a, r.b)
                   f == [q EXCEPT !.found = isSubscribed]
                   next == CASE r.op = "Subscribe" -> SubscribeCheck(isSubscribed)
                             [] r.op = "Unsubscribe" -> UnsubscribeCheck(isSubscribed)
                             [] OTHER -> IsSubscribedCheck(isSubscribed)
               IN Set(w, CASE next = "proceed" -> [f EXCEPT !.pc = "write"]
                           [] next = "OK" -> Finish(f, "OK", "plain")
                           [] OTHER -> FinishErr(f, next, "plain", "none"))
    /\ subscription' = RepoFirst(subscription, r.a, r.b)
    /\ UNCHANGED << started, subscribedOk >>

\* repo.Subscribe and the end of service.Subscribe
Subscribe(w) ==
    LET r == req[w] IN
    /\ r.pc = "write"
    /\ r.op = "Subscribe"
    /\ IF CtxDone(r.ctx)
       THEN /\ Set(w, FinishErr(r, "Internal", "plain", "none"))
            /\ UNCHANGED << subscription, subscribedOk >>
       ELSE LET q == [r EXCEPT !.ncalls = @ + 1] IN
            \/ /\ \E t \in ErrTexts : Set(w, FinishErr(q, "Internal", t, "storage"))
               /\ UNCHANGED << subscription, subscribedOk >>
            \/ /\ subscription' = RepoSubscribe(subscription, r.a, r.b)
               /\ Set(w, Finish([q EXCEPT !.rows = 1], "OK", "plain"))
               /\ subscribedOk' =
                    [subscribedOk EXCEPT ![<< r.a, r.b >>] =
                       ~ \E v \in Workers : /\ InFlight(req[v])
                                            /\ req[v].op = "Unsubscribe"
                                            /\ req[v].a = r.a /\ req[v].b = r.b]
    /\ UNCHANGED started

\* repo.Unsubscribe and the end of service.Unsubscribe
Unsubscribe(w) ==
    LET r == req[w] IN
    /\ r.pc = "write"
    /\ r.op = "Unsubscribe"
    /\ IF CtxDone(r.ctx)
       THEN /\ Set(w, FinishErr(r, "Internal", "plain", "none"))
            /\ UNCHANGED subscription
       ELSE LET q == [r EXCEPT !.ncalls = @ + 1] IN
            \/ /\ \E t \in ErrTexts : Set(w, FinishErr(q, "Internal", t, "storage"))
               /\ UNCHANGED subscription
            \/ /\ subscription' = RepoUnsubscribe(subscription, r.a, r.b)
               /\ Set(w, Finish([q EXCEPT !.rows = subscription[<< r.a, r.b >>]],
                                "OK", "plain"))
    /\ UNCHANGED << started, subscribedOk >>

\* a loop that takes an empty follow-set for a failure
NextUserNoneFails(r) ==
    IF Len(r.ids) = 0
    THEN FinishAggregate(r, TRUE, "none")
    ELSE IF r.i + 1 > Len(r.ids)
    THEN FinishAggregate(r, FALSE, "none")
    ELSE [r EXCEPT !.i = @ + 1, !.j = 0, !.entries = << >>, !.media = NoMedia,
                   !.pc = "source"]

\* a loop that starts over with the listing when it has served the last user
NextUserRestart(r) ==
    IF r.i + 1 > Len(r.ids)
    THEN [r EXCEPT !.i = 0, !.j = 0, !.ids = << >>, !.entries = << >>,
                   !.media = NoMedia, !.items = << >>, !.ncalls = 0,
                   !.calls = << >>, !.queried = FALSE, !.pc = "list"]
    ELSE [r EXCEPT !.i = @ + 1, !.j = 0, !.entries = << >>, !.media = NoMedia,
                   !.pc = "source"]

\* the loop of the aggregate moves on to the next followed user, or ends
NextUser(r) ==
    IF r.i + 1 > Len(r.ids)
    THEN FinishAggregate(r, FALSE, "none")
    ELSE [r EXCEPT !.i = @ + 1, !.j = 0, !.entries = << >>, !.media = NoMedia,
                   !.pc = "source"]

\* repo.GetSubscriptions: the listing itself and the follow-set of an aggregate
GetSubscriptions(w) ==
    LET r == req[w] IN
    /\ r.pc = "list"
    /\ (r.op = "GetSubscriptions" \/ r.op \in AggregateOps)
    /\ IF CtxDone(r.ctx)
       THEN Set(w, FinishErr(r, "Internal", "plain", "none"))
       ELSE LET q == [Issue(r, << "list", r.a >>) EXCEPT !.queried = TRUE] IN
            \/ \E t \in ErrTexts : Set(w, FinishErr(q, "Internal", t, "storage"))
            \/ \E subscribedToIDs \in RepoGetSubscriptions(subscription, r.a) :
                 LET f == [q EXCEPT !.ids = subscribedToIDs] IN
                 Set(w, IF r.op = "GetSubscriptions" THEN Finish(f, "OK", "plain")
                        ELSE NextUser(f))
    /\ UNCHANGED << subscription, started, subscribedOk >>

\* repo.GetSubscribers
GetSubscribers(w) ==
    LET r == req[w] IN
    /\ r.pc = "list"
    /\ r.op = "GetSubscribers"
    /\ IF CtxDone(r.ctx)
       THEN Set(w, FinishErr(r, "Internal", "plain", "none"))
       ELSE LET q == [r EXCEPT !.ncalls = @ + 1, !.queried = TRUE] IN
            \/ \E t \in ErrTexts : Set(w, FinishErr(q, "Internal", t, "storage"))
            \/ \E subscriberIDs \in RepoGetSubscribers(subscription, r.a) :
                 Set(w, Finish([q EXCEPT !.ids = subscriberIDs], "OK", "plain"))
    /\ UNCHANGED << subscription, started, subscribedOk >>

\* watchlistClient.GetWatchlist / reviewClient.GetByUser for the followed user
\* ids[i].  A gateway call carries ctx: with ctx cancelled it returns an error
\* without reaching the downstream service.
GetBySource(w) ==
    LET r == req[w] IN
    /\ r.pc = "source"
    /\ IF CtxDone(r.ctx)
       THEN Set(w, FinishAggregate(r, TRUE, "source"))
       ELSE LET q == Issue(r, << "source", r.ids[r.i] >>) IN
            \/ Set(w, FinishAggregate(q, TRUE, "source"))
            \/ LET response == SourceOf(r.op, r.ids[r.i]) IN
               Set(w, IF Len(response) = 0 THEN NextUser(q)
                      ELSE [q EXCEPT !.entries = response, !.j = 1, !.pc = "catalog"])
    /\ UNCHANGED << subscription, started, subscribedOk >>

\* mediaClient.GetMediaByID for the entry entries[j]
GetMediaByID(w) ==
    LET r == req[w] IN
    /\ r.pc = "catalog"
    /\ IF CtxDone(r.ctx)
       THEN Set(w, FinishAggregate(r, TRUE, "catalog"))
       ELSE LET q == Issue(r, << "catalog", r.entries[r.j].MediaId >>) IN
            \/ Set(w, FinishAggregate(q, TRUE, "catalog"))
            \/ Set(w, [q EXCEPT !.media = MediaByID(r.entries[r.j].MediaId),
                                !.pc = "identity"])
    /\ UNCHANGED << subscription, started, subscribedOk >>

\* userClient.GetByID for the followed user ids[i], then the item is appended
GetByID(w) ==
    LET r == req[w] IN
    /\ r.pc = "identity"
    /\ IF CtxDone(r.ctx)
       THEN Set(w, FinishAggregate(r, TRUE, "identity"))
       ELSE LET q == Issue(r, << "identity", r.ids[r.i] >>) IN
            \/ Set(w, FinishAggregate(q, TRUE, "identity"))
            \/ LET item == ItemOf(r.op, r.entries[r.j], r.media, Username(r.ids[r.i]))
                   f == [q EXCEPT !.items = Join(@, item), !.media = NoMedia]
               IN Set(w, IF r.j + 1 > Len(r.entries) THEN NextUser(f)
                         ELSE [f EXCEPT !.j = @ + 1, !.pc = "catalog"])
    /\ UNCHANGED << subscription, started, subscribedOk >>

\* The response is written and the goroutine ends.
Return(w) ==
    /\ req[w].pc = "done"
    /\ Set(w, Idle)
    /\ UNCHANGED << subscription, started, subscribedOk >>

Invoke(w) == InvokeOf(w, Ops, MaxRequests)

InvokeEdge(w) == InvokeOf(w, PairOps \cup ListOps, MaxEdgeRequests)

Next ==
    \E w \in Workers :
        \/ Invoke(w)
        \/ Cancel(w)
        \/ IsSubscribed(w)
        \/ Subscribe(w)
        \/ Unsubscribe(w)
        \/ GetSubscriptions(w)
        \/ GetSubscribers(w)
        \/ GetBySource(w)
        \/ GetMediaByID(w)
        \/ GetByID(w)
        \/ Return(w)

Spec == Init /\ [][Next]_vars

\* The operations on edges alone, with one more request: the aggregates never
\* write the table.
NextEdges ==
    \E w \in Workers :
        \/ InvokeEdge(w)
        \/ Cancel(w)
        \/ IsSubscribed(w)
        \/ Subscribe(w)
        \/ Unsubscribe(w)
        \/ GetSubscriptions(w)
        \/ GetSubscribers(w)
        \/ Return(w)

SpecEdges == Init /\ [][NextEdges]_vars

\* The aggregates over a table that already holds edges of user 1 (the table
\* outlives the process), with Subscribe and Unsubscribe beside them.
InitAggregates ==
    /\ \E n2, n3 \in {0, 1} :
         subscription = [p \in Pairs |-> IF p = << 1, 2 >> THEN n2
                                         ELSE IF p = << 1, 3 >> THEN n3
                                         ELSE 0]
    /\ req = [w \in Workers |-> Idle]
    /\ started = 0
    /\ subscribedOk = [p \in Pairs |-> FALSE]

InvokeAggregate(w) ==
    InvokeOf(w, {"Subscribe", "Unsubscribe",
                 "GetWatchlistsBySubscription", "GetReviewsBySubscription"},
             MaxAggregateRequests)

NextAggregates ==
    \E w \in Workers :
        \/ InvokeAggregate(w)
        \/ Cancel(w)
        \/ IsSubscribed(w)
        \/ Subscribe(w)
        \/ Unsubscribe(w)
        \/ GetSubscriptions(w)
        \/ GetBySource(w)
        \/ GetMediaByID(w)
        \/ GetByID(w)
        \/ Return(w)

SpecAggregates == InitAggregates /\ [][NextAggregates]_vars

\* Subscribe beside GetReviewsBySubscription from an empty table, with one more
\* request: two Subscribe of one pair and the aggregate that reads their rows.
InvokeReview(w) ==
    InvokeOf(w, {"Subscribe", "GetReviewsBySubscription"}, MaxReviewRequests)

NextReviews ==
    \E w \in Workers :
        \/ InvokeReview(w)
        \/ Cancel(w)
        \/ IsSubscribed(w)
        \/ Subscribe(w)
        \/ GetSubscriptions(w)
        \/ GetBySource(w)
        \/ GetMediaByID(w)
        \/ GetByID(w)
        \/ Return(w)

SpecReviews == Init /\ [][NextReviews]_vars

\* One caller that issues Subscribe and Unsubscribe one after the other: the next
\* request arrives only after the previous one has been answered.
InvokeSequential(w) ==
    /\ \A v \in Workers : ~InFlight(req[v])
    /\ InvokeOf(w, {"Subscribe", "Unsubscribe"}, MaxSequentialRequests)

NextSequential ==
    \E w \in Workers :
        \/ InvokeSequential(w)
        \/ Cancel(w)
        \/ IsSubscribed(w)
        \/ Subscribe(w)
        \/ Unsubscribe(w)
        \/ Return(w)

SpecSequential == Init /\ [][NextSequential]_vars

\* The aggregates alone, over a table that holds edges of user 1.  A request
\* that is being served takes its next step: every storage and gateway call
\* returns, and the goroutine of the request is scheduled again.  Arrivals and
\* cancellations are up to the caller and carry no fairness.
InvokeLive(w) ==
    InvokeOf(w, {"GetWatchlistsBySubscription", "GetReviewsBySubscription"},
             MaxLiveRequests)

Serve(w) ==
    \/ GetSubscriptions(w)
    \/ GetBySource(w)
    \/ GetMediaByID(w)
    \/ GetByID(w)

NextLive ==
    \E w \in Workers :
        \/ InvokeLive(w)
        \/ Cancel(w)
        \/ Serve(w)
        \/ Return(w)

SpecLive ==
    /\ InitAggregates
    /\ [][NextLive]_vars
    /\ \A w \in Workers : WF_vars(Serve(w))

\* ------------------------------------------------------------- properties

Range(s) == { s[k] : k \in DOMAIN s }

Ended(r) == r.pc = "done"

\* the request ran with a live context throughout and every call it made answered
Undisturbed(r) == r.entryCtx = "live" /\ ~r.midCancel /\ r.failedAt = "none"

\* C1: the table holds at most one row per (subscriber_id, user_id) pair, under
\* any interleaving of Subscribe and Unsubscribe requests.
C1_AtMostOneRowPerPair ==
    \A p \in Pairs : subscription[p] <= 1

\* C2: a Subscribe(a,b) called after a Subscribe(a,b) succeeded, with no
\* Unsubscribe(a,b) called since, fails with AlreadyExists, and the table then
\* holds exactly one row (a,b).
C2_SecondSubscribeAlreadyExists ==
    \A w \in Workers :
        LET r == req[w] IN
        (Ended(r) /\ r.op = "Subscribe" /\ r.a # r.b /\ r.again /\ Undisturbed(r))
            => /\ r.svc = "AlreadyExists"
               /\ r.result = "AlreadyExists"
               /\ subscription[<< r.a, r.b >>] = 1

\* C3: Subscribe(a,a) fails with InvalidArgument without any storage call and
\* without a row written, and the table never holds a row with
\* subscriber_id = user_id.
C3_SelfFollowRejected ==
    /\ \A u \in Users : subscription[<< u, u >>] = 0
    /\ \A w \in Workers :
        LET r == req[w] IN
        (Ended(r) /\ r.op = "Subscribe" /\ r.a = r.b)
            => r.result = "InvalidArgument" /\ r.ncalls = 0 /\ r.rows = 0

C3_Witness ==
    \E w \in Workers :
        /\ Ended(req[w]) /\ req[w].op = "Subscribe" /\ req[w].a = req[w].b
        /\ req[w].entryCtx = "cancelled"
        /\ \E p \in Pairs : subscription[p] > 0

\* C4: the step in which a Subscribe(a,b) succeeds leaves b in every listing
\* GetSubscriptions(a) and a in every listing GetSubscribers(b); the step in
\* which an Unsubscribe(a,b) succeeds leaves b in no listing GetSubscriptions(a)
\* and a in no listing GetSubscribers(b), however many rows (a,b) there were.
C4_SymmetricListing ==
    [][\A w \in Workers :
         LET r == req[w] IN
         (r.pc = "write" /\ req'[w].pc = "done" /\ req'[w].svc = "OK")
            => /\ r.a # r.b
               /\ \A s \in RepoGetSubscriptions(subscription', r.a) :
                    (r.b \in Range(s)) <=> (r.op = "Subscribe")
               /\ \A s \in RepoGetSubscribers(subscription', r.b) :
                    (r.a \in Range(s)) <=> (r.op = "Subscribe")]_vars

C4_Witness ==
    \E w \in Workers :
        /\ Ended(req[w]) /\ req[w].op = "Unsubscribe" /\ req[w].svc = "OK"
        /\ req[w].rows = 2
        /\ subscription[<< req[w].a, req[w].b >>] = 0

\* C5: an Unsubscribe(a,b) whose existence check finds no row (a,b) fails with
\* NotFound and issues no delete: the existence query is its only storage call
\* and it removes no row.
C5_UnsubscribeAbsentNotFound ==
    \A w \in Workers :
        LET r == req[w] IN
        (Ended(r) /\ r.op = "Unsubscribe" /\ r.queried /\ r.failedAt = "none" /\ ~r.found)
            => /\ r.svc = "NotFound"
               /\ r.result = "NotFound"
               /\ r.ncalls = 1
               /\ r.rows = 0

C5_Witness ==
    \E w \in Workers :
        /\ Ended(req[w]) /\ req[w].op = "Unsubscribe" /\ req[w].queried
        /\ req[w].failedAt = "none" /\ ~req[w].found
        /\ \E p \in Pairs : subscription[p] > 0

\* C6: an Unsubscribe(a,b) reports success only if its delete removed a row
\* (a,b).
C6_UnsubscribeSuccessRemovedARow ==
    \A w \in Workers :
        LET r == req[w] IN
        (Ended(r) /\ r.op = "Unsubscribe" /\ r.svc = "OK") => r.rows >= 1

\* C7: every operation of the service called with a context that is already
\* cancelled fails with Canceled, and issues no storage query and no gateway
\* call.
C7_CancelledAtEntry ==
    \A w \in Workers :
        LET r == req[w] IN
        (Ended(r) /\ r.entryCtx = "cancelled" /\ ~(r.op = "Subscribe" /\ r.a = r.b))
            => r.svc = "Canceled" /\ r.ncalls = 0 /\ ~r.queried

C7_Witness ==
    \E w, v \in Workers :
        /\ Ended(req[w]) /\ req[w].entryCtx = "cancelled"
        /\ req[w].op = "Subscribe" /\ req[w].a # req[w].b
        /\ Ended(req[v]) /\ req[v].entryCtx = "cancelled"
        /\ req[v].op = "GetReviewsBySubscription"

\* C8: a request whose context is cancelled while it is served (a Subscribe or
\* Unsubscribe between its existence check and its write, an aggregate anywhere
\* in its fan-out) issues no further call and ends with Canceled.
C8_CancelledWhileServed ==
    \A w \in Workers :
        LET r == req[w] IN
        (/\ Ended(r)
         /\ \/ r.op \in {"Subscribe", "Unsubscribe"} /\ r.cancelAt = "write"
            \/ r.op \in AggregateOps /\ r.cancelAt \in {"list", "source", "catalog", "identity"})
            => r.svc = "Canceled" /\ r.ncalls = r.callsAtCancel

\* C9: an aggregate in which a source, catalog or identity call failed ends with
\* Internal and returns no items, whatever number of items it had joined.
C9_AggregateFailsWhole ==
    \A w \in Workers :
        LET r == req[w] IN
        (Ended(r) /\ r.op \in AggregateOps /\ r.failedAt \in {"source", "catalog", "identity"})
            => r.svc = "Internal" /\ r.result = "Internal" /\ r.items = << >>

C9_Witness ==
    \E w \in Workers :
        /\ Ended(req[w]) /\ req[w].op \in AggregateOps
        /\ req[w].failedAt = "catalog" /\ req[w].joined >= 1 /\ ~req[w].midCancel

\* the item C10 names for the entry of a followed user
ExpectedWatchlistItem(followed, entry) ==
    [ MediaId |-> entry.MediaId, UserId |-> followed, UserName |-> Username(followed),
      Title |-> MediaByID(entry.MediaId).NameEn,
      Description |-> MediaByID(entry.MediaId).Description ]

\* C10: a successful GetWatchlistsBySubscription(u) returns one item per
\* watchlist entry of each user followed by u and nothing else, each with the
\* entry's media id, the followed user's id and name, and the media's title and
\* description.
C10_WatchlistItemsExact ==
    \A w \in Workers :
        LET r == req[w]
            entriesOf == UNION { { << f, k >> : k \in DOMAIN Watchlists(f) } :
                                 f \in Range(r.ids) }
            expected(p) == ExpectedWatchlistItem(p[1], Watchlists(p[1])[p[2]])
        IN (Ended(r) /\ r.op = "GetWatchlistsBySubscription" /\ r.svc = "OK")
            => /\ Len(r.items) = Cardinality(entriesOf)
               /\ \A p \in entriesOf :
                    Cardinality({ k \in DOMAIN r.items : r.items[k] = expected(p) })
                      = Cardinality({ q \in entriesOf : expected(q) = expected(p) })

\* C11: every item of a successful aggregate carries the id and the name of a
\* user of the follow-set the request resolved, whatever the records of the
\* watchlist and review services hold.
C11_ItemsNameFollowedUsers ==
    \A w \in Workers :
        LET r == req[w] IN
        (Ended(r) /\ r.op \in AggregateOps /\ r.svc = "OK")
            => \A k \in DOMAIN r.items :
                 \E f \in Range(r.ids) :
                    r.items[k].UserId = f /\ r.items[k].UserName = Username(f)

\* C12: an aggregate whose follow-set resolves to no user succeeds with no
\* items; the storage query is the only call it makes.
C12_NoFollowsEmptySuccess ==
    \A w \in Workers :
        LET r == req[w] IN
        (/\ Ended(r) /\ r.op \in AggregateOps
         /\ r.queried /\ r.failedAt = "none" /\ r.ids = << >>)
            => /\ r.svc = "OK" /\ r.result = "OK"
               /\ r.items = << >>
               /\ r.ncalls = 1

C12_Witness ==
    \E w, v \in Workers :
        /\ Ended(req[w]) /\ req[w].op = "GetWatchlistsBySubscription"
        /\ req[w].queried /\ req[w].failedAt = "none" /\ req[w].ids = << >>
        /\ Ended(req[v]) /\ req[v].op = "GetReviewsBySubscription"
        /\ req[v].queried /\ req[v].failedAt = "none" /\ req[v].ids = << >>
        /\ \E p \in Pairs : subscription[p] > 0

\* the items of the followed users ids[k], ids[k+1], ..., user after user and,
\* for one user, in the order of the records the source returned
RECURSIVE ItemsInOrder(_, _, _)
ItemsInOrder(op, ids, k) ==
    IF k > Len(ids) THEN << >>
    ELSE LET records == SourceOf(op, ids[k])
         IN [ e \in 1..Len(records) |->
                ItemOf(op, records[e], MediaByID(records[e].MediaId), Username(ids[k])) ]
            \o ItemsInOrder(op, ids, k + 1)

\* C13: the items of a successful aggregate stand in the order of the follow-set
\* as the listing returned it and, for one followed user, in the order of the
\* records of the source; users are not interleaved and nothing is sorted.
C13_ItemsInTraversalOrder ==
    \A w \in Workers :
        LET r == req[w] IN
        (Ended(r) /\ r.op \in AggregateOps /\ r.svc = "OK")
            => r.items = ItemsInOrder(r.op, r.ids, 1)

C13_Witness ==
    \E w \in Workers :
        /\ Ended(req[w]) /\ req[w].op \in AggregateOps /\ req[w].svc = "OK"
        /\ req[w].ids = << 3, 2 >>
        /\ Len(req[w].items) = Len(SourceOf(req[w].op, 3)) + Len(SourceOf(req[w].op, 2))
        /\ req[w].items[1] # req[w].items[Len(req[w].items)]

\* the rows a listing read, whatever their order: how often each user occurs
RowsRead(ids) == [ v \in Users |-> Cardinality({ k \in DOMAIN ids : ids[k] = v }) ]

\* C14: two successful aggregates of the same kind for the same user whose
\* listings read the same rows return the same items in the same order.
C14_AggregateDeterministic ==
    \A w, v \in Workers :
        LET r == req[w]
            s == req[v]
        IN (/\ Ended(r) /\ Ended(s)
            /\ r.op \in AggregateOps /\ s.op = r.op /\ s.a = r.a
            /\ r.svc = "OK" /\ s.svc = "OK"
            /\ RowsRead(r.ids) = RowsRead(s.ids))
            => r.items = s.items

\* the kinds of error C15 allows (codes.Canceled is its Cancelled)
ErrorKinds ==
    {"InvalidArgument", "AlreadyExists", "NotFound", "Canceled", "Internal", "Unavailable"}

\* C15: every request ends either with a response and no error, or with one
\* error of a kind of ErrorKinds and no response: no items, no ids, no flag.
C15_ExactlyOneOutcome ==
    \A w \in Workers :
        LET r == req[w] IN
        Ended(r)
            => \/ r.result = "OK" /\ r.svc = "OK"
               \/ /\ r.result \in ErrorKinds
                  /\ r.svc \in (ErrorKinds \cup {"none"})
                  /\ r.items = << >> /\ r.ids = << >>
                  /\ (r.op = "IsSubscribed" => ~r.found)

C15_Witness ==
    \E w \in Workers :
        /\ Ended(req[w]) /\ req[w].op \in AggregateOps
        /\ req[w].result = "Internal" /\ req[w].joined >= 1

\* C16: a Subscribe or Unsubscribe answers AlreadyExists, NotFound or
\* InvalidArgument only when the rule of that kind fired (row found on
\* Subscribe, no row found on Unsubscribe, both ids equal), and answers a
\* failed storage call with Internal whatever the text of the storage error.
C16_BusinessKindsOnlyFromRules ==
    \A w \in Workers :
        LET r == req[w] IN
        (Ended(r) /\ r.op \in {"Subscribe", "Unsubscribe"})
            => /\ r.failedAt = "storage" => r.result = "Internal"
               /\ r.result = "AlreadyExists"
                    => r.op = "Subscribe" /\ r.failedAt = "none" /\ r.queried /\ r.found
               /\ r.result = "NotFound"
                    => r.op = "Unsubscribe" /\ r.failedAt = "none" /\ r.queried /\ ~r.found
               /\ r.result = "InvalidArgument" => r.op = "Subscribe" /\ r.a = r.b

ReadOps == {"GetSubscriptions", "GetSubscribers", "IsSubscribed"}

\* C17: the step that ends a GetSubscriptions, GetSubscribers or IsSubscribed
\* ends it with an error only if the storage call failed or the context is
\* cancelled; otherwise it succeeds, with no ids for a user without rows and
\* with false for a pair without a row.
C17_ReadsFailOnlyOnStorage ==
    [][\A w \in Workers :
         LET r == req[w]
             s == req'[w]
         IN (r.op \in ReadOps /\ r.pc \in {"exists", "list"} /\ s.pc = "done")
            => /\ s.svc # "OK" => (s.failedAt = "storage" \/ CtxDone(r.ctx))
               /\ (s.failedAt = "none" /\ ~CtxDone(r.ctx))
                    => /\ s.svc = "OK" /\ s.result = "OK"
                       /\ (r.op = "GetSubscriptions"
                             /\ \A v \in Users : subscription[<< r.a, v >>] = 0)
                            => s.ids = << >>
                       /\ (r.op = "GetSubscribers"
                             /\ \A v \in Users : subscription[<< v, r.a >>] = 0)
                            => s.ids = << >>
                       /\ (r.op = "IsSubscribed" /\ subscription[<< r.a, r.b >>] = 0)
                            => ~s.found]_vars

C17_Witness ==
    \E w, v \in Workers :
        /\ Ended(req[w]) /\ req[w].op \in ListOps /\ req[w].svc = "OK"
        /\ req[w].queried /\ req[w].ids = << >>
        /\ Ended(req[v]) /\ req[v].op = "IsSubscribed" /\ req[v].svc = "OK"
        /\ req[v].queried /\ ~req[v].found

\* the code a request ends with when its context stays live and all its calls
\* answer
NormalCode(r) ==
    CASE r.op = "Subscribe" -> IF r.found THEN "AlreadyExists" ELSE "OK"
      [] r.op = "Unsubscribe" -> IF r.found THEN "OK" ELSE "NotFound"
      [] OTHER -> "OK"

\* C18: the step in which a call of one request fails changes that request
\* only: the table and every other request stay as they are; and every request
\* that ends with its context live and all its own calls answered ends with its
\* normal result, whatever happened to the requests beside it.
C18_FailureStaysInRequest ==
    [][\A w \in Workers :
         /\ (req[w].pc # "done" /\ req'[w].pc = "done" /\ req'[w].failedAt # "none")
              => /\ subscription' = subscription
                 /\ \A v \in Workers \ {w} : req'[v] = req[v]
         /\ (InFlight(req[w]) /\ req'[w].pc = "done" /\ Undisturbed(req'[w]))
              => /\ req'[w].svc = NormalCode(req'[w])
                 /\ req'[w].result = req'[w].svc
                 /\ req'[w].op \in AggregateOps
                      => req'[w].items = ItemsInOrder(req'[w].op, req'[w].ids, 1)]_vars

C18_Witness ==
    \E w, v \in Workers :
        /\ Ended(req[w]) /\ req[w].op \in AggregateOps
        /\ req[w].failedAt \in {"source", "catalog", "identity"} /\ ~req[w].midCancel
        /\ Ended(req[v]) /\ req[v].op \in AggregateOps /\ Undisturbed(req[v])
        /\ req[v].svc = "OK" /\ req[v].items # << >>
        /\ req[v].a = req[w].a

\* the item C19 names for the review of a followed user
ExpectedReviewItem(followed, review) ==
    [ ReviewId |-> review.Id, UserId |-> review.UserId,
      UserName |-> Username(followed),
      Content |-> review.Content, Rating |-> review.Rating,
      MediaName |-> MediaByID(review.MediaId).NameEn,
      MediaYear |-> MediaByID(review.MediaId).Year ]

\* C19: a successful GetReviewsBySubscription(u) returns one item per review of
\* each user followed by u and nothing else, each with the review's id, author,
\* content and rating, the followed user's name, and the media's name and year.
C19_ReviewItemsExact ==
    \A w \in Workers :
        LET r == req[w]
            reviewsOf == UNION { { << f, k >> : k \in DOMAIN Reviews(f) } :
                                 f \in Range(r.ids) }
            expected(p) == ExpectedReviewItem(p[1], Reviews(p[1])[p[2]])
        IN (Ended(r) /\ r.op = "GetReviewsBySubscription" /\ r.svc = "OK")
            => /\ Len(r.items) = Cardinality(reviewsOf)
               /\ \A p \in reviewsOf :
                    Cardinality({ k \in DOMAIN r.items : r.items[k] = expected(p) })
                      = Cardinality({ q \in reviewsOf : expected(q) = expected(p) })

\* C20: the step in which a call of an aggregate fails ends the request, with
\* at most that one call issued in the step; and a request in which a call has
\* failed issues no call any more.
C20_NoCallAfterFailure ==
    [][\A w \in Workers :
         LET r == req[w]
             s == req'[w]
         IN /\ (r.op \in AggregateOps /\ InFlight(r) /\ s.failedAt # "none")
                 => s.pc = "done" /\ s.ncalls <= r.ncalls + 1
            /\ (r.op \in AggregateOps /\ r.failedAt # "none")
                 => s.ncalls <= r.ncalls]_vars

C20_Witness ==
    \E w \in Workers :
        /\ Ended(req[w]) /\ req[w].op \in AggregateOps
        /\ req[w].failedAt = "source" /\ req[w].joined >= 1
        /\ req[w].entryCtx = "live" /\ ~req[w].midCancel

\* the calls of the fan-out over the followed users ids[k], ids[k+1], ...: per
\* user one source call, then per record of the answer one catalog call for
\* the record's media and one identity call for the user
RECURSIVE CallsOfRecords(_, _, _)
CallsOfRecords(records, followed, e) ==
    IF e > Len(records) THEN << >>
    ELSE << << "catalog", records[e].MediaId >>, << "identity", followed >> >>
         \o CallsOfRecords(records, followed, e + 1)

RECURSIVE CallsInOrder(_, _, _)
CallsInOrder(op, ids, k) ==
    IF k > Len(ids) THEN << >>
    ELSE << << "source", ids[k] >> >>
         \o CallsOfRecords(SourceOf(op, ids[k]), ids[k], 1)
         \o CallsInOrder(op, ids, k + 1)

\* C21: a successful aggregate issues, after its listing, one source call per
\* followed user in the order of the follow-set, each followed by one catalog
\* and one identity call per record of the answer and by none for an empty
\* answer; the source calls are as many as the users of the follow-set.
C21_FanOutCalls ==
    \A w \in Workers :
        LET r == req[w] IN
        (Ended(r) /\ r.op \in AggregateOps /\ r.svc = "OK")
            => /\ r.calls = << << "list", r.a >> >> \o CallsInOrder(r.op, r.ids, 1)
               /\ r.ncalls = Len(r.calls)
               /\ Cardinality({ k \in DOMAIN r.calls : r.calls[k][1] = "source" })
                    = Cardinality(Range(r.ids))

\* C22: a step of an aggregate issues at most one call, storage or gateway,
\* and the step ends with the answer of that call; the next call of the request
\* is issued by a later step.
C22_OneCallAtATime ==
    [][\A w \in Workers :
         LET r == req[w]
             s == req'[w]
         IN (r.op \in AggregateOps /\ InFlight(r))
            => /\ s.ncalls <= r.ncalls + 1
               /\ Len(s.calls) <= Len(r.calls) + 1
               /\ s.ncalls = r.ncalls + 1
                    => s.pc # r.pc \/ s.i # r.i \/ s.j # r.j]_vars

C22_Witness ==
    \E w, v \in Workers :
        /\ w # v
        /\ req[w].op \in AggregateOps /\ req[w].pc = "identity"
        /\ Len(req[w].calls) >= 3
        /\ req[v].op \in AggregateOps /\ req[v].pc = "catalog"
        /\ Len(req[v].calls) >= 2

\* C23: the table changes only in the step in which a Subscribe(a,b) or an
\* Unsubscribe(a,b) succeeds; that step adds one row (a,b), or removes the rows
\* (a,b), and leaves the rows of every other pair, the reverse pair (b,a)
\* among them, as they are.
C23_OnlyOwnEdgeChanges ==
    [][subscription' # subscription
         => \E w \in Workers :
              LET r == req[w]
                  s == req'[w]
              IN /\ r.op \in {"Subscribe", "Unsubscribe"}
                 /\ r.pc = "write" /\ s.pc = "done" /\ s.svc = "OK"
                 /\ \A p \in Pairs \ {<< r.a, r.b >>} : subscription'[p] = subscription[p]
                 /\ subscription'[<< r.a, r.b >>] =
                      IF r.op = "Subscribe" THEN subscription[<< r.a, r.b >>] + 1 ELSE 0]_vars

C23_Witness ==
    \E w \in Workers :
        /\ Ended(req[w]) /\ req[w].op = "Subscribe" /\ req[w].svc = "OK"
        /\ req[w].rows = 1
        /\ subscription[<< req[w].a, req[w].b >>] = 1
        /\ subscription[<< req[w].b, req[w].a >>] = 1

\* the kinds of error after which C24 wants the table as it was
UnchangedKinds == {"InvalidArgument", "AlreadyExists", "NotFound", "Canceled"}

\* C24: the step that ends a Subscribe or Unsubscribe with InvalidArgument,
\* AlreadyExists, NotFound or Canceled (from the service or from the handler)
\* writes no row, no earlier step of the request wrote one, and no step of an
\* IsSubscribed, a listing or an aggregate writes a row, however it ends.
C24_ErrorsAndReadsWriteNothing ==
    [][\A w \in Workers :
         LET r == req[w]
             s == req'[w]
         IN /\ (/\ s.op \in {"Subscribe", "Unsubscribe"}
                /\ r.pc # "done" /\ s.pc = "done"
                /\ (s.svc \in UnchangedKinds \/ s.result \in UnchangedKinds))
                 => subscription' = subscription /\ s.rows = 0
            /\ (r.op \in {"Subscribe", "Unsubscribe"} /\ InFlight(r)
                /\ s # r /\ s.pc # "done")
                 => subscription' = subscription
            /\ (r.op \in (ReadOps \cup AggregateOps) /\ InFlight(r) /\ s # r)
                 => subscription' = subscription /\ s.rows = 0]_vars

C24_Witness ==
    \E w, v \in Workers :
        /\ Ended(req[w]) /\ req[w].op = "Subscribe"
        /\ req[w].svc = "AlreadyExists" /\ req[w].result = "AlreadyExists"
        /\ subscription[<< req[w].a, req[w].b >>] = 1
        /\ Ended(req[v]) /\ req[v].op = "Subscribe" /\ req[v].svc = "OK"
        /\ req[v].a = req[w].a /\ req[v].b = req[w].b

\* C25: when the service ends a request with an error of some kind, the
\* handler returns an error of that kind to the caller.
C25_HandlerKeepsKind ==
    \A w \in Workers :
        LET r == req[w] IN
        (Ended(r) /\ r.svc \in {"Canceled", "InvalidArgument", "AlreadyExists",
                                "NotFound", "Internal"})
            => r.result = r.svc

\* C26: in a sequential run, a Subscribe(a,b), a # b, that meets no row (a,b)
\* and no failure succeeds and inserts the one row, and an Unsubscribe(a,b)
\* that meets that row succeeds and leaves the table as it was without it:
\* Subscribe; Unsubscribe returns the table to its starting value, and the
\* next Subscribe(a,b) succeeds again.
C26_SubscribeUnsubscribeRoundTrip ==
    [][\A w \in Workers :
         LET r == req[w]
             p == << r.a, r.b >>
         IN (InFlight(r) /\ r.op \in {"Subscribe", "Unsubscribe"} /\ r.a # r.b
                /\ Ended(req'[w]) /\ Undisturbed(req'[w]))
            => /\ (r.op = "Subscribe" /\ subscription[p] = 0)
                    => /\ req'[w].svc = "OK" /\ req'[w].result = "OK"
                       /\ subscription' = [subscription EXCEPT ![p] = 1]
               /\ (r.op = "Unsubscribe" /\ subscription[p] = 1)
                    => /\ req'[w].svc = "OK" /\ req'[w].result = "OK"
                       /\ subscription' = [subscription EXCEPT ![p] = 0]
      ]_vars

\* Subscribe(a,b), Unsubscribe(a,b) and Subscribe(a,b) again have all succeeded,
\* and the table holds the one row (a,b) and nothing else.
C26_Witness ==
    /\ started = 3
    /\ \E w, v \in Workers :
         LET s == req[w]
             u == req[v]
         IN /\ w # v
            /\ Ended(s) /\ s.op = "Subscribe" /\ s.result = "OK" /\ s.a # s.b
            /\ Ended(u) /\ u.op = "Unsubscribe" /\ u.result = "OK"
            /\ u.a = s.a /\ u.b = s.b
            /\ subscription = [p \in Pairs |-> IF p = << s.a, s.b >> THEN 1 ELSE 0]

\* C27: an aggregate request that is being served is eventually answered, with
\* the list of all records of its follow-set or with an error, and while it
\* is served it has issued no more calls than the listing, one source call per
\* row of the follow-set and two calls per record of the answers.
C27_AggregateTerminates ==
    \A w \in Workers :
        /\ []((req[w].op \in AggregateOps /\ (InFlight(req[w]) \/ req[w].svc = "OK"))
                => req[w].ncalls <= 1 + Len(CallsInOrder(req[w].op, req[w].ids, 1)))
        /\ InFlight(req[w])
             ~> /\ Ended(req[w])
                /\ \/ req[w].svc \in (Codes \ {"OK"})
                   \/ /\ req[w].svc = "OK"
                      /\ 2 * Len(req[w].items) + Len(req[w].ids)
                           = Len(CallsInOrder(req[w].op, req[w].ids, 1))

\* An aggregate over a follow-set of two users has been answered with its
\* three items after the listing and eight gateway calls, and another one with
\* an error.
C27_Witness ==
    \E w, v \in Workers :
        /\ Ended(req[w]) /\ req[w].op \in AggregateOps /\ req[w].svc = "OK"
        /\ Len(req[w].ids) = 2 /\ Len(req[w].items) = 3 /\ req[w].ncalls = 9
        /\ Ended(req[v]) /\ req[v].op \in AggregateOps /\ req[v].svc # "OK"
        /\ req[v].ncalls > 1

====
